---- MODULE Spec2Model ----
\* A model of winss::FilesystemInterface (lib/winss/filesystem_interface.cpp).
\*
\* The filesystem is a finite tree of entries (absent, regular file, directory);
\* a regular file carries its content and its read-only attribute.  Each library
\* call the code makes (std::ifstream, std::ofstream, fs::rename,
\* fs::create_directory, fs::status, fs::directory_iterator,
\* CreateFile, GetFinalPathNameByHandle, CloseHandle) is an operator on that
\* state; each method of FilesystemInterface is an action (or a sequence of
\* actions where a claim speaks about the steps inside the call).
\*
\* Access-control lists, quotas and removable media are not modelled: the only
\* platform failures are the ones that follow from the modelled state, plus a
\* stream write error (a device error or a full disk) inside Write.
EXTENDS Integers, Sequences, FiniteSets, TLC

\* The filesystem; Write in progress (pc, wpath, wcontent, wpre, good,
\* nwritten); the last two completed calls.
VARIABLES
    fs, pc, wpath, wcontent, wpre, good, nwritten, last, prev

callVars ==
    <<pc, wpath, wcontent, wpre, good, nwritten, last, prev>>

\* Directory listing (GetDirectories, GetFiles)
VARIABLES
    entries, listed, directories, files

listVars ==
    <<entries, listed, directories, files>>

\* The shared instance (static member instance, GetInstance)
VARIABLES
    instance, nobj, alive, staticDone, tpc, tnew, tref, tcalls

instVars ==
    <<instance, nobj, alive, staticDone, tpc, tnew, tref, tcalls>>

\* CanonicalUncPath
VARIABLES
    upc, uin, hstate, goodCloses, badCloses, bufsize, pathbuf, iter, ulen, ukind, uresult

uncVars ==
    <<upc, uin, hstate, goodCloses, badCloses, bufsize, pathbuf, iter, ulen, ukind, uresult>>

\* Concurrent callers of CreateDirectory
VARIABLES
    mpc, mpath, mret, mexists

raceVars ==
    <<mpc, mpath, mret, mexists>>

vars ==
    <<fs, callVars, listVars, instVars, uncVars, raceVars>>

----------------------------------------------------------------------------
\* Bounds and value sets

\* Longest content handed to Write.
MaxLen ==
    1

Chars ==
    {"x"}

\* The line terminator std::endl inserts.
NL ==
    "\n"

RECURSIVE SeqsUpTo(_, _)
SeqsUpTo(S, n) ==
    IF n = 0
    THEN {<<>>}
    ELSE LET shorter == SeqsUpTo(S, n - 1)
         IN  shorter \cup {Append(s, ch) : s \in {t \in shorter : Len(t) = n - 1}, ch \in S}

Contents ==
    SeqsUpTo(Chars, MaxLen)

\* Paths are sequences of components; the root directory is the empty
\* sequence and always exists.
AllPaths ==
    { <<"a">>, <<"a", "b">>, <<"a", "b.new">>, <<"a", "c">> }

Parent(p) ==
    SubSeq(p, 1, Len(p) - 1)

IsPrefix(s, t) ==
    Len(s) <= Len(t) /\ SubSeq(t, 1, Len(s)) = s

IsProperPrefix(s, t) ==
    Len(s) < Len(t) /\ SubSeq(t, 1, Len(s)) = s

\* temp_path = path; temp_path += ".new";
TempPath(p) ==
    [p EXCEPT ![Len(p)] = @ \o ".new"]

WritePaths ==
    {p \in AllPaths : TempPath(p) \in AllPaths}

----------------------------------------------------------------------------
\* Filesystem entries

NoNode ==
    [kind |-> "none", data |-> <<>>, ro |-> FALSE]

DirNode ==
    [kind |-> "dir", data |-> <<>>, ro |-> FALSE]

FileNode(d, r) ==
    [kind |-> "file", data |-> d, ro |-> r]

ParentIsDir(f, p) ==
    Len(p) = 1 \/ f[Parent(p)].kind = "dir"

HasChildren(f, p) ==
    \E q \in AllPaths : Len(q) = Len(p) + 1 /\ Parent(q) = p /\ f[q].kind # "none"

\* fs::status(p) followed by exists/is_directory/is_regular_file.
DirectoryExists(f, p) ==
    f[p].kind = "dir"

FileExists(f, p) ==
    f[p].kind = "file"

\* std::ifstream infile{path}; the whole stream is copied into the result.
\* A stream that failed to open (absent path, directory) yields no characters.
NodeData(n) ==
    IF n.kind = "file" THEN n.data ELSE <<>>

Read(f, p) ==
    NodeData(f[p])

\* std::ofstream outfile(temp_path, out | trunc): the open succeeds when the
\* parent directory exists and the path is absent or a writable regular file.
CanOpenForWrite(f, p) ==
    /\ ParentIsDir(f, p)
    /\ \/ f[p].kind = "none"
       \/ f[p].kind = "file" /\ ~f[p].ro

\* The entry that q names after the subtree at from has moved to to.
MovedEntry(f, from, to, q) ==
    IF IsPrefix(to, q)
    THEN LET src == from \o SubSeq(q, Len(to) + 1, Len(q))
         IN  IF src \in AllPaths THEN f[src] ELSE NoNode
    ELSE IF IsPrefix(from, q) THEN NoNode ELSE f[q]

\* fs::rename(from, to) on Windows (MoveFileEx).  ok = FALSE stands for the
\* filesystem_error it throws: the source is absent, the target's directory
\* is absent, the target lies inside the source, the target is a directory,
\* a directory would replace a file, or the target is a read-only file.
fs_rename(f, from, to) ==
    LET fail == [ok |-> FALSE, fs |-> f]
        move == [ok |-> TRUE, fs |-> [q \in AllPaths |-> MovedEntry(f, from, to, q)]]
    IN  IF f[from].kind = "none" THEN fail
        ELSE IF from = to THEN [ok |-> TRUE, fs |-> f]
        ELSE IF ~ParentIsDir(f, to) \/ IsPrefix(from, to) THEN fail
        ELSE IF f[to].kind = "none" THEN move
        ELSE IF f[from].kind = "file"
             THEN IF f[to].kind = "file" /\ ~f[to].ro THEN move ELSE fail
             ELSE fail

\* fs::create_directory(dir): "created" is a true return, "exists" a false
\* return without an error, "error" a filesystem_error.
fs_create_directory(f, d) ==
    IF f[d].kind = "dir" THEN [res |-> "exists", fs |-> f]
    ELSE IF f[d].kind = "file" \/ ~ParentIsDir(f, d) THEN [res |-> "error", fs |-> f]
    ELSE [res |-> "created", fs |-> [f EXCEPT ![d] = DirNode]]

----------------------------------------------------------------------------
\* History of completed calls, for the claims about sequences of calls.
\* last is the call that returned most recently: its arguments, its return
\* value, and the entries its path arguments named when it was entered.
\* prev is the call before it, in summary, kept when it named the same path
\* as last (the sequences the claims speak of are calls on one path).  The
\* queries Read, DirectoryExists and FileExists change nothing; a claim about
\* a query that follows a call evaluates the query's operator in the state
\* the call left.

NoCall ==
    [op |-> "none"]

OpRecord(op, p, to, c, ret, pre) ==
    [op |-> op, path |-> p, to |-> to, content |-> c, ret |-> ret,
     prePath |-> pre[p], preTo |-> IF to \in AllPaths THEN pre[to] ELSE NoNode,
     preParent |-> ParentIsDir(pre, p)]

Summary(r, p) ==
    IF r.op = "none" \/ r.path # p
    THEN NoCall
    ELSE [op |-> r.op, path |-> r.path, content |-> r.content, ret |-> r.ret,
          preKind |-> r.prePath.kind, preParent |-> r.preParent]

----------------------------------------------------------------------------
\* The methods of FilesystemInterface as functions of the filesystem state

\* Rename: try { fs::rename(from, to); return true; } catch { return false; }
RenameResult(f, from, to) ==
    LET r == fs_rename(f, from, to)
    IN  [ret |-> r.ok, fs |-> r.fs]

\* CreateDirectory without the existence check of line 93.
CreateDirectoryUnchecked(f, d) ==
    LET r == fs_create_directory(f, d)
    IN  [ret |-> r.res = "created", fs |-> r.fs]

\* CreateDirectory: if (!DirectoryExists(dir)) { if (!fs::create_directory(dir))
\* return false; } return true; a filesystem_error returns false.
CreateDirectoryResult(f, d) ==
    IF ~DirectoryExists(f, d)
    THEN LET r == fs_create_directory(f, d)
         IN  [ret |-> r.res = "created", fs |-> r.fs]
    ELSE [ret |-> TRUE, fs |-> f]

----------------------------------------------------------------------------
\* Initial filesystems: directory "a" present or absent; under it an older
\* version of "b" and a left-over temporary "b.new" (writable or read-only).

OldData ==
    <<"o", NL>>

StaleData ==
    <<"s">>

NoFs ==
    [q \in AllPaths |-> NoNode]

InitialFs ==
    {NoFs} \cup
    { [q \in AllPaths |->
          IF q = <<"a">> THEN DirNode
          ELSE IF q = <<"a", "b">> THEN b
          ELSE IF q = <<"a", "b.new">> THEN t
          ELSE NoNode] :
        b \in {NoNode, FileNode(OldData, FALSE)},
        t \in {NoNode, FileNode(StaleData, FALSE), FileNode(StaleData, TRUE)} }

IdleFs ==
    /\ fs = NoFs
    /\ pc = "idle"
    /\ wpath = <<>>
    /\ wcontent = <<>>
    /\ wpre = NoFs
    /\ good = TRUE
    /\ nwritten = 0
    /\ last = NoCall
    /\ prev = NoCall

InitFs ==
    /\ fs \in InitialFs
    /\ pc = "idle"
    /\ wpath = <<>>
    /\ wcontent = <<>>
    /\ wpre = NoFs
    /\ good = TRUE
    /\ nwritten = 0
    /\ last = NoCall
    /\ prev = NoCall

----------------------------------------------------------------------------
\* Write, statement by statement

\* What "outfile << content << std::endl" sends to the stream.
WriteBuf(c) ==
    c \o <<NL>>

\* Line 59: the stream is opened on the temporary path; a failed open sets
\* the stream's fail state and throws nothing.
WriteOpen(p, c) ==
    /\ pc = "idle"
    /\ LET temp == TempPath(p)
       IN  IF CanOpenForWrite(fs, temp)
           THEN fs' = [fs EXCEPT ![temp] = FileNode(<<>>, FALSE)] /\ good' = TRUE
           ELSE fs' = fs /\ good' = FALSE
    /\ pc' = "insert"
    /\ wpath' = p
    /\ wcontent' = c
    /\ wpre' = fs
    /\ nwritten' = 0
    /\ UNCHANGED <<last, prev>>
    /\ UNCHANGED <<listVars, instVars, uncVars, raceVars>>

\* Line 60: one more character reaches the file, or the write fails and the
\* stream goes bad; insertions into a stream that is not good do nothing.
WriteInsert(ok) ==
    /\ pc = "insert"
    /\ good
    /\ nwritten < Len(WriteBuf(wcontent))
    /\ IF ok
       THEN /\ fs' = [fs EXCEPT ![TempPath(wpath)].data =
                           Append(@, WriteBuf(wcontent)[nwritten + 1])]
            /\ nwritten' = nwritten + 1
            /\ good' = TRUE
       ELSE /\ good' = FALSE
            /\ UNCHANGED <<fs, nwritten>>
    /\ UNCHANGED <<pc, wpath, wcontent, wpre, last, prev>>
    /\ UNCHANGED <<listVars, instVars, uncVars, raceVars>>

\* Line 61: outfile.close(); no exception was thrown, so the catch block of
\* lines 62-65 is not entered.
WriteClose ==
    /\ pc = "insert"
    /\ ~good \/ nwritten = Len(WriteBuf(wcontent))
    /\ pc' = "rename"
    /\ UNCHANGED <<fs, wpath, wcontent, wpre, good, nwritten, last, prev>>
    /\ UNCHANGED <<listVars, instVars, uncVars, raceVars>>

\* Line 67: return Rename(temp_path, path);
WriteRename ==
    /\ pc = "rename"
    /\ LET r == RenameResult(fs, TempPath(wpath), wpath)
       IN  /\ fs' = r.fs
           /\ last' = OpRecord("Write", wpath, <<>>, wcontent, r.ret, wpre)
           /\ prev' = Summary(last, wpath)
    /\ pc' = "idle"
    /\ wpath' = <<>>
    /\ wcontent' = <<>>
    /\ wpre' = NoFs
    /\ good' = TRUE
    /\ nwritten' = 0
    /\ UNCHANGED <<listVars, instVars, uncVars, raceVars>>

----------------------------------------------------------------------------
\* The other methods, one action per call

Rename(from, to) ==
    /\ pc = "idle"
    /\ LET r == RenameResult(fs, from, to)
       IN  /\ fs' = r.fs
           /\ last' = OpRecord("Rename", from, to, <<>>, r.ret, fs)
           /\ prev' = Summary(last, from)
    /\ UNCHANGED <<pc, wpath, wcontent, wpre, good, nwritten>>
    /\ UNCHANGED <<listVars, instVars, uncVars, raceVars>>

CreateDirectory(d) ==
    /\ pc = "idle"
    /\ LET r == CreateDirectoryResult(fs, d)
       IN  /\ fs' = r.fs
           /\ last' = OpRecord("CreateDirectory", d, <<>>, <<>>, r.ret, fs)
           /\ prev' = Summary(last, d)
    /\ UNCHANGED <<pc, wpath, wcontent, wpre, good, nwritten>>
    /\ UNCHANGED <<listVars, instVars, uncVars, raceVars>>

NextFs ==
    \/ \E p \in WritePaths, c \in Contents : WriteOpen(p, c)
    \/ \E ok \in BOOLEAN : WriteInsert(ok)
    \/ WriteClose
    \/ WriteRename
    \/ \E from \in AllPaths, to \in AllPaths : Rename(from, to)
    \/ \E d \in AllPaths : CreateDirectory(d)

----------------------------------------------------------------------------
\* Claims about Write, Read, Rename and CreateDirectory (specification Spec)

\* C1: whenever Write(p, c) has returned true, a Read(p) that follows it
\* immediately returns c followed by the line terminator.
C1_WriteThenRead ==
    (pc = "idle" /\ last.op = "Write" /\ last.ret)
        => Read(fs, last.path) = WriteBuf(last.content)

\* C2: while a Write(p, c) is between creating the temporary file and the end
\* of the rename, and after a Write(p, c) that returned false, Read(p) is what
\* it was before the call; and p never holds a partially written blob (a
\* proper prefix of what the call was writing, put there by the call).
C2_WriteAtomic ==
    /\ pc \in {"insert", "rename"} => Read(fs, wpath) = Read(wpre, wpath)
    /\ (pc = "idle" /\ last.op = "Write" /\ ~last.ret)
          => Read(fs, last.path) = NodeData(last.prePath)
    /\ (pc = "idle" /\ last.op = "Write")
          => ~ /\ IsProperPrefix(Read(fs, last.path), WriteBuf(last.content))
               /\ Read(fs, last.path) # NodeData(last.prePath)

\* C3: a Rename(from, to) that returned true left at to exactly what from
\* held and nothing at from - so that after Write(p, c) = true and
\* Rename(p, q) = true, FileExists(p) is false, FileExists(q) is true and
\* Read(q) is c plus the terminator; a Rename that returned false left from
\* and to as they were.  (from and to are two paths: fs::rename of a path to
\* itself does nothing and reports success.)
C3_RenameEffect ==
    /\ (pc = "idle" /\ last.op = "Rename" /\ last.ret /\ last.path # last.to)
          => fs[last.to] = last.prePath /\ fs[last.path].kind = "none"
    /\ (pc = "idle" /\ last.op = "Rename" /\ ~last.ret)
          => fs[last.path] = last.prePath /\ fs[last.to] = last.preTo
    /\ (/\ pc = "idle"
        /\ prev.op = "Write" /\ prev.ret
        /\ last.op = "Rename" /\ last.ret /\ last.path = prev.path
        /\ last.path # last.to)
          => /\ ~FileExists(fs, last.path)
             /\ FileExists(fs, last.to)
             /\ Read(fs, last.to) = WriteBuf(prev.content)

\* C4: two successive CreateDirectory(d) calls, for a d whose parent exists
\* and which no non-directory occupies, both return true, and
\* DirectoryExists(d) holds after the first and after the second.
C4_CreateDirectoryTwice ==
    /\ (pc = "idle" /\ last.op = "CreateDirectory"
          /\ last.preParent /\ last.prePath.kind # "file")
          => last.ret /\ DirectoryExists(fs, last.path)
    /\ (/\ pc = "idle"
        /\ prev.op = "CreateDirectory" /\ last.op = "CreateDirectory"
        /\ prev.path = last.path
        /\ prev.preParent /\ prev.preKind # "file")
          => /\ prev.ret
             /\ last.prePath.kind = "dir"
             /\ last.ret
             /\ DirectoryExists(fs, last.path)

\* Two successive calls on a path that did not exist before the first.
C4_Witness ==
    /\ pc = "idle"
    /\ prev.op = "CreateDirectory" /\ last.op = "CreateDirectory"
    /\ prev.path = last.path
    /\ prev.preParent /\ prev.preKind = "none"
    /\ last.ret

----------------------------------------------------------------------------
\* GetDirectories and GetFiles
\*
\* entries is the content of the listed directory in the order
\* fs::directory_iterator yields it; the child at position i is named i.
\* An entry is a directory, a regular file, a special entry that is not a
\* directory, or an entry whose entry.status() throws filesystem_error.

\* Most children in the listed directory.
MaxEntries ==
    3

EntryKinds ==
    {"dir", "file", "special", "error"}

RECURSIVE Scan(_, _, _, _)
\* The loop of lines 204-210 (wantDir) and 227-233 (~wantDir) from position
\* i on, acc being the vector built so far.  The try block encloses the
\* loop, so the exception of entry.status() leaves the loop and the function
\* returns what it has collected (lines 211-219, 234-242).
Scan(es, i, acc, wantDir) ==
    IF i > Len(es) THEN acc
    ELSE IF es[i] = "error" THEN acc
    ELSE IF (es[i] = "dir") = wantDir
         THEN Scan(es, i + 1, Append(acc, i), wantDir)
         ELSE Scan(es, i + 1, acc, wantDir)

GetDirectoriesResult(es) ==
    Scan(es, 1, <<>>, TRUE)

GetFilesResult(es) ==
    Scan(es, 1, <<>>, FALSE)

Range(q) ==
    {q[i] : i \in 1..Len(q)}

\* listed holds the operations that have returned; directories and files
\* are their results.
InitList ==
    /\ entries \in SeqsUpTo(EntryKinds, MaxEntries)
    /\ listed = {}
    /\ directories = <<>>
    /\ files = <<>>

IdleList ==
    /\ entries = <<>>
    /\ listed = {}
    /\ directories = <<>>
    /\ files = <<>>

GetDirectories ==
    /\ directories' = GetDirectoriesResult(entries)
    /\ listed' = listed \cup {"GetDirectories"}
    /\ UNCHANGED <<entries, files>>
    /\ UNCHANGED <<fs, callVars, instVars, uncVars, raceVars>>

GetFiles ==
    /\ files' = GetFilesResult(entries)
    /\ listed' = listed \cup {"GetFiles"}
    /\ UNCHANGED <<entries, directories>>
    /\ UNCHANGED <<fs, callVars, instVars, uncVars, raceVars>>

NextList ==
    \/ GetDirectories
    \/ GetFiles

\* C5: every immediate child of D is in exactly one of GetDirectories(D) and
\* GetFiles(D) - directories in the first, everything else (regular files,
\* special entries) in the second - and neither list holds anything but
\* immediate children of D.  A child whose status cannot be read is of
\* neither class and is not counted.
C5_ListingPartition ==
    listed = {"GetDirectories", "GetFiles"}
        => /\ \A i \in 1..Len(entries) :
                entries[i] # "error"
                    => /\ (i \in Range(directories)) # (i \in Range(files))
                       /\ entries[i] = "dir" => i \in Range(directories)
                       /\ entries[i] \in {"file", "special"} => i \in Range(files)
           /\ Range(directories) \cup Range(files) \subseteq 1..Len(entries)

\* C6: an entry whose inspection raises an error is the only one left out:
\* every other child the operation lists is in the returned list, whether it
\* comes before or after the failing entry.
C6_PerEntrySkip ==
    /\ "GetDirectories" \in listed
          => \A i \in 1..Len(entries) : entries[i] = "dir" => i \in Range(directories)
    /\ "GetFiles" \in listed
          => \A i \in 1..Len(entries) :
                entries[i] \in {"file", "special"} => i \in Range(files)

----------------------------------------------------------------------------
\* The shared instance
\*
\* Objects are numbered in the order they are constructed (1..nobj); alive
\* holds the ones not destroyed; instance is the object the static shared_ptr
\* points to, 0 for the null pointer of zero-initialised static storage.
\* tref[t] is the object whose reference GetInstance last returned to t.

\* Concurrent callers.
NThreads ==
    2

\* Calls each caller makes.
MaxCalls ==
    2

Threads ==
    1..NThreads

InitInst ==
    /\ instance = 0
    /\ nobj = 0
    /\ alive = {}
    /\ staticDone = FALSE
    /\ tpc = [t \in Threads |-> "idle"]
    /\ tnew = [t \in Threads |-> 0]
    /\ tref = [t \in Threads |-> 0]
    /\ tcalls = [t \in Threads |-> 0]

IdleInst ==
    InitInst

\* Lines 28-30: the dynamic initialiser of the static member constructs an
\* object and the pointer to it in the member's storage.  It is a
\* construction, not an assignment: what the storage pointed to before is
\* not released.  Callers in other translation units' initialisers (and the
\* threads they start) are not ordered with it.
StaticInit ==
    /\ ~staticDone
    /\ staticDone' = TRUE
    /\ nobj' = nobj + 1
    /\ alive' = alive \cup {nobj + 1}
    /\ instance' = nobj + 1
    /\ UNCHANGED <<tpc, tnew, tref, tcalls>>
    /\ UNCHANGED <<fs, callVars, listVars, uncVars, raceVars>>

\* Line 246: if (!instance)
GetInstanceCheck(t) ==
    /\ tpc[t] = "idle"
    /\ tcalls[t] < MaxCalls
    /\ tcalls' = [tcalls EXCEPT ![t] = @ + 1]
    /\ tpc' = [tpc EXCEPT ![t] = IF instance = 0 THEN "make" ELSE "return"]
    /\ UNCHANGED <<instance, nobj, alive, staticDone, tnew, tref>>
    /\ UNCHANGED <<fs, callVars, listVars, uncVars, raceVars>>

\* Line 248: std::make_shared<FilesystemInterface>()
GetInstanceMake(t) ==
    /\ tpc[t] = "make"
    /\ nobj' = nobj + 1
    /\ alive' = alive \cup {nobj + 1}
    /\ tnew' = [tnew EXCEPT ![t] = nobj + 1]
    /\ tpc' = [tpc EXCEPT ![t] = "assign"]
    /\ UNCHANGED <<instance, staticDone, tref, tcalls>>
    /\ UNCHANGED <<fs, callVars, listVars, uncVars, raceVars>>

\* Line 247: instance = <the new pointer>.  The assignment releases the last
\* reference to the object instance pointed to; when the assignment races
\* with another write of instance the release may be lost.
GetInstanceAssign(t, release) ==
    /\ tpc[t] = "assign"
    /\ instance' = tnew[t]
    /\ alive' = IF instance # 0 /\ release THEN alive \ {instance} ELSE alive
    /\ tnew' = [tnew EXCEPT ![t] = 0]
    /\ tpc' = [tpc EXCEPT ![t] = "return"]
    /\ UNCHANGED <<nobj, staticDone, tref, tcalls>>
    /\ UNCHANGED <<fs, callVars, listVars, uncVars, raceVars>>

\* Line 251: return *instance;
GetInstanceReturn(t) ==
    /\ tpc[t] = "return"
    /\ tref' = [tref EXCEPT ![t] = instance]
    /\ tpc' = [tpc EXCEPT ![t] = "idle"]
    /\ UNCHANGED <<instance, nobj, alive, staticDone, tnew, tcalls>>
    /\ UNCHANGED <<fs, callVars, listVars, uncVars, raceVars>>

NextInst ==
    \/ StaticInit
    \/ \E t \in Threads : GetInstanceCheck(t)
    \/ \E t \in Threads : GetInstanceMake(t)
    \/ \E t \in Threads, release \in BOOLEAN : GetInstanceAssign(t, release)
    \/ \E t \in Threads : GetInstanceReturn(t)

\* C7: the shared instance is constructed at most once, and the object a
\* caller obtained from GetInstance stays the shared instance and is not
\* destroyed.
C7_InitializeOnce ==
    /\ nobj <= 1
    /\ \A t \in Threads : tref[t] # 0 => tref[t] = instance /\ tref[t] \in alive

----------------------------------------------------------------------------
\* CanonicalUncPath
\*
\* A call's inputs: the path (its characters), whether CreateFile opens
\* it, the final path GetFinalPathNameByHandle reports, which of the query
\* calls fails (0: none), and whether fs::canonical succeeds in Absolute.

\* Longest path argument.
MaxPathLen ==
    2

\* Longest final path.
MaxFinalLen ==
    5

\* Query calls a run can make: one with the first buffer, one after regrowth.
MaxQueries ==
    2

NUL ==
    "NUL"

PathOf(n) ==
    [i \in 1..n |-> "p"]

FinalOf(n) ==
    [i \in 1..n |-> "f"]

\* fs::canonical(path): the resolved form of an existing path.
Canonical(path) ==
    <<"c">> \o path

\* Absolute: try { return fs::canonical(path); } catch { return path; }
Absolute(path, canonOk) ==
    IF canonOk THEN Canonical(path) ELSE path

\* std::vector<char>::resize(n): kept elements, then value-initialised ones.
Resize(buf, n) ==
    [i \in 1..n |-> IF i <= Len(buf) THEN buf[i] ELSE NUL]

\* GetFinalPathNameByHandle(file, buf, size, ...) on a final path that fits
\* (its characters and the terminating null within size): the buffer after
\* the call.
FillBuffer(buf, final) ==
    [i \in 1..Len(buf) |->
        IF i <= Len(final) THEN final[i]
        ELSE IF i = Len(final) + 1 THEN NUL
        ELSE buf[i]]

\* The value GetFinalPathNameByHandle returns: 0 on failure, the length
\* without the terminating null when the path fits, else the size required
\* including the terminating null.
QueryLen(final, size, fails) ==
    IF fails THEN 0
    ELSE IF Len(final) + 1 <= size THEN Len(final)
    ELSE Len(final) + 1

NoInput ==
    [path |-> <<>>, canOpen |-> FALSE, final |-> <<>>, failAt |-> 0, canonOk |-> FALSE]

InitUnc ==
    /\ upc = "idle"
    /\ uin = NoInput
    /\ hstate = "none"
    /\ goodCloses = 0
    /\ badCloses = 0
    /\ bufsize = 0
    /\ pathbuf = <<>>
    /\ iter = 0
    /\ ulen = 0
    /\ ukind = "none"
    /\ uresult = <<>>

IdleUnc ==
    InitUnc

\* Lines 160-168: CreateFile returns a handle or INVALID_HANDLE_VALUE.
CanonicalUncPathOpen(n, canOpen, r, failAt, canonOk) ==
    /\ upc \in {"idle", "done"}
    /\ uin' = [path |-> PathOf(n), canOpen |-> canOpen, final |-> FinalOf(r),
               failAt |-> failAt, canonOk |-> canonOk]
    /\ hstate' = IF canOpen THEN "open" ELSE "invalid"
    /\ upc' = "opened"
    /\ goodCloses' = 0
    /\ badCloses' = 0
    /\ bufsize' = 0
    /\ pathbuf' = <<>>
    /\ iter' = 0
    /\ ulen' = 0
    /\ ukind' = "none"
    /\ uresult' = <<>>
    /\ UNCHANGED <<fs, callVars, listVars, instVars, raceVars>>

\* Lines 170-173: CloseHandle(file) on the invalid handle, then Absolute.
CanonicalUncPathOpenFailed ==
    /\ upc = "opened"
    /\ hstate = "invalid"
    /\ badCloses' = badCloses + 1
    /\ ukind' = "absolute"
    /\ uresult' = Absolute(uin.path, uin.canonOk)
    /\ upc' = "done"
    /\ UNCHANGED <<uin, hstate, goodCloses, bufsize, pathbuf, iter, ulen>>
    /\ UNCHANGED <<fs, callVars, listVars, instVars, raceVars>>

\* Lines 175-176: bufsize = path_str.size() * 2
CanonicalUncPathSize ==
    /\ upc = "opened"
    /\ hstate = "open"
    /\ bufsize' = Len(uin.path) * 2
    /\ upc' = "query"
    /\ UNCHANGED <<uin, hstate, goodCloses, badCloses, pathbuf, iter, ulen, ukind, uresult>>
    /\ UNCHANGED <<fs, callVars, listVars, instVars, raceVars>>

\* Lines 178-192: one iteration of the loop.
CanonicalUncPathQuery ==
    /\ upc = "query"
    /\ iter' = iter + 1
    /\ LET buf == Resize(pathbuf, bufsize + 1)
           len == QueryLen(uin.final, bufsize, iter + 1 = uin.failAt)
       IN  /\ ulen' = len
           /\ IF len = 0
              THEN /\ pathbuf' = buf
                   /\ hstate' = "closed"
                   /\ goodCloses' = goodCloses + 1
                   /\ ukind' = "absolute"
                   /\ uresult' = Absolute(uin.path, uin.canonOk)
                   /\ upc' = "done"
                   /\ UNCHANGED bufsize
              ELSE IF len <= bufsize
              THEN /\ pathbuf' = FillBuffer(buf, uin.final)
                   /\ upc' = "finish"
                   /\ UNCHANGED <<bufsize, hstate, goodCloses, ukind, uresult>>
              ELSE /\ pathbuf' = buf
                   /\ bufsize' = len
                   /\ UNCHANGED <<upc, hstate, goodCloses, ukind, uresult>>
    /\ UNCHANGED <<uin, badCloses>>
    /\ UNCHANGED <<fs, callVars, listVars, instVars, raceVars>>

\* Lines 194-196: CloseHandle(file); the path is built from the whole vector.
CanonicalUncPathFinish ==
    /\ upc = "finish"
    /\ hstate' = "closed"
    /\ goodCloses' = goodCloses + 1
    /\ ukind' = "unc"
    /\ uresult' = pathbuf
    /\ upc' = "done"
    /\ UNCHANGED <<uin, badCloses, bufsize, pathbuf, iter, ulen>>
    /\ UNCHANGED <<fs, callVars, listVars, instVars, raceVars>>

NextUnc ==
    \/ \E n \in 1..MaxPathLen, canOpen \in BOOLEAN, r \in 1..MaxFinalLen,
          failAt \in 0..MaxQueries, canonOk \in BOOLEAN :
            CanonicalUncPathOpen(n, canOpen, r, failAt, canonOk)
    \/ CanonicalUncPathOpenFailed
    \/ CanonicalUncPathSize
    \/ CanonicalUncPathQuery
    \/ CanonicalUncPathFinish

\* C8: when the handle opened and the query succeeded, the returned path is
\* exactly the final path the query reported: its length is the len of the
\* successful query and it holds no other buffer character.
C8_ResultIsFinalPath ==
    (upc = "done" /\ ukind = "unc")
        => uresult = uin.final /\ Len(uresult) = ulen

\* C10: CloseHandle is only ever issued on an open handle; when the call
\* returns no handle is open and an opened handle has been closed exactly
\* once; after an open failure or a query failure the result is
\* Absolute(path).
C10_HandleDiscipline ==
    /\ badCloses = 0
    /\ goodCloses <= 1
    /\ upc = "done"
         => /\ hstate # "open"
            /\ uin.canOpen => goodCloses = 1
            /\ (~uin.canOpen \/ ulen = 0)
                 => uresult = Absolute(uin.path, uin.canonOk)

----------------------------------------------------------------------------
\* CreateDirectory called by concurrent callers, statement by statement

InitRace ==
    /\ mpc = [t \in Threads |-> "idle"]
    /\ mpath = [t \in Threads |-> <<>>]
    /\ mret = [t \in Threads |-> FALSE]
    /\ mexists = [t \in Threads |-> FALSE]

IdleRace ==
    InitRace

\* Line 93: if (!DirectoryExists(dir)); line 100: return true.
CreateDirectoryCheck(t, d) ==
    /\ mpc[t] \in {"idle", "done"}
    /\ mpath' = [mpath EXCEPT ![t] = d]
    /\ IF DirectoryExists(fs, d)
       THEN /\ mpc' = [mpc EXCEPT ![t] = "done"]
            /\ mret' = [mret EXCEPT ![t] = TRUE]
            /\ mexists' = [mexists EXCEPT ![t] = TRUE]
       ELSE /\ mpc' = [mpc EXCEPT ![t] = "create"]
            /\ mret' = [mret EXCEPT ![t] = FALSE]
            /\ mexists' = [mexists EXCEPT ![t] = FALSE]
    /\ UNCHANGED <<fs, callVars, listVars, instVars, uncVars>>

\* Lines 94-104: fs::create_directory(dir); false or an exception returns
\* false.  mexists records DirectoryExists(dir) at the moment of the return.
CreateDirectoryCreate(t) ==
    /\ mpc[t] = "create"
    /\ LET r == fs_create_directory(fs, mpath[t])
       IN  /\ fs' = r.fs
           /\ mret' = [mret EXCEPT ![t] = (r.res = "created")]
           /\ mexists' = [mexists EXCEPT ![t] = DirectoryExists(r.fs, mpath[t])]
    /\ mpc' = [mpc EXCEPT ![t] = "done"]
    /\ UNCHANGED mpath
    /\ UNCHANGED <<callVars, listVars, instVars, uncVars>>

NextRace ==
    \/ \E t \in Threads, d \in AllPaths : CreateDirectoryCheck(t, d)
    \/ \E t \in Threads : CreateDirectoryCreate(t)

\* C9: a CreateDirectory(d) call returns true whenever d exists as a
\* directory at the moment it returns, whatever other callers do meanwhile.
C9_TrueWhenExists ==
    \A t \in Threads : (mpc[t] = "done" /\ mexists[t]) => mret[t]

----------------------------------------------------------------------------
\* Specifications

Init ==
    InitFs /\ IdleList /\ IdleInst /\ IdleUnc /\ IdleRace

Next ==
    NextFs

Spec ==
    Init /\ [][Next]_vars

InitListing ==
    IdleFs /\ InitList /\ IdleInst /\ IdleUnc /\ IdleRace

SpecListing ==
    InitListing /\ [][NextList]_vars

InitInstance ==
    IdleFs /\ IdleList /\ InitInst /\ IdleUnc /\ IdleRace

SpecInstance ==
    InitInstance /\ [][NextInst]_vars

InitCanonicalUncPath ==
    IdleFs /\ IdleList /\ IdleInst /\ InitUnc /\ IdleRace

SpecCanonicalUncPath ==
    InitCanonicalUncPath /\ [][NextUnc]_vars

InitCreateRace ==
    InitFs /\ IdleList /\ IdleInst /\ IdleUnc /\ InitRace

SpecCreateRace ==
    InitCreateRace /\ [][NextRace]_vars

====
